---- MODULE Spec2Model ----
(***************************************************************************)
(* Model of the real-time chat core of Sparkbot:                           *)
(*   backend/app/api/routes/chat/websocket.py                              *)
(* ConnectionManager (the registry, its lock and the broadcast sweep),     *)
(* the per-room endpoint websocket_chat and the generic endpoint           *)
(* websocket_main.                                                         *)
(*                                                                         *)
(* Scheduling: the endpoint coroutines run on one asyncio event loop.  A   *)
(* coroutine runs uninterrupted until an await that performs I/O          *)
(* (accept, send_json, receive_json); acquiring the registry lock never    *)
(* suspends because no coroutine awaits while holding it.  Each action     *)
(* below is therefore: the completion of one awaited I/O operation of one  *)
(* session, followed by the synchronous code up to the next such await.    *)
(* sess[s].pc names the await the session is suspended at.                 *)
(***************************************************************************)
EXTENDS Integers, Sequences, FiniteSets, TLC

\* ---------------------------------------------------------------- bounds
\* what comes from outside the endpoint code, all sessions together.
\* NumSessions: the sessions clients open.  MaxEvents: the inbound events
\* clients send.  MaxFaults: the transports that break and the store or
\* lookup calls that fail.
NumSessions == 3
MaxEvents == 2
MaxFaults == 2

\* A session owns exactly one WebSocket; the handle is the session number.
Sessions == 1..NumSessions

\* ------------------------------------------------ external collaborators
Users == {"u1", "u2", "u3"}
Rooms == {"r1", "r2"}
NoUser == "none"
NoRoom == "none"

\* room_id path parameters: the rooms, a well-formed id of no room, a
\* string that is no UUID
RoomIds == Rooms \cup {"r9", "bad"}
Tokens == {"t1", "t2", "t3", "tx"}

\* the requests clients open: every outcome of the validation occurs
Requests ==
    {<<"r1", "t1">>, <<"r1", "t2">>, <<"r2", "t1">>, <<"r2", "t2">>,
     <<"r1", "tx">>, <<"r9", "t1">>, <<"bad", "t1">>,
     <<"r9", "tx">>, <<"bad", "tx">>}

\* the requests of two members of one room, and of three
CrowdRequests == {<<"r1", "t1">>, <<"r1", "t2">>}
TrioRequests == CrowdRequests \cup {<<"r1", "t3">>}

IsUUID(room_id) == room_id # "bad"

get_chat_room_by_id(room_id) == room_id \in Rooms

\* decode_token and the "sub" of its payload (lines 257-263)
decode_token(token) ==
    CASE token = "t1" -> "u1"
      [] token = "t2" -> "u2"
      [] token = "t3" -> "u3"
      [] OTHER -> NoUser

\* the ChatRoomMember table: role of (room, user), "none" when no row
get_chat_room_member(room_id, user) ==
    CASE room_id = "r1" /\ user = "u1" -> "MEMBER"
      [] room_id = "r1" /\ user = "u2" -> "OWNER"
      [] room_id = "r1" /\ user = "u3" -> "MOD"
      [] room_id = "r2" /\ user = "u1" -> "VIEWER"
      [] OTHER -> "none"

\* close codes that do not tell a missing room from a refused member
CloseCode_shared(reason) ==
    CASE reason = "format" -> 4000
      [] reason = "room" -> 4003
      [] reason = "token" -> 4001
      [] reason = "member" -> 4003

\* the close codes of the four validations (lines 339, 344, 350, 356)
CloseCode(reason) ==
    CASE reason = "format" -> 4000
      [] reason = "room" -> 4004
      [] reason = "token" -> 4001
      [] reason = "member" -> 4003

\* message contents a client sends, as character sequences
Contents == {<<>>, <<" ">>, <<"h">>, <<" ", "h", " ">>}
Cids == {"c1", "none"}

RECURSIVE LStrip(_)
LStrip(str) ==
    IF str # <<>> /\ Head(str) = " " THEN LStrip(Tail(str)) ELSE str

RECURSIVE RStrip(_)
RStrip(str) ==
    IF str # <<>> /\ str[Len(str)] = " "
    THEN RStrip(SubSeq(str, 1, Len(str) - 1))
    ELSE str

\* str.strip()
Strip(str) == RStrip(LStrip(str))

\* no call of get_chat_messages has returned
NoPage == [room |-> NoRoom]

\* ------------------------------------------------------------- variables
VARIABLES
    connections,   \* room_id -> ordered dict user_id -> WebSocket
    room_users,    \* room_id -> set of user_ids
    user_rooms,    \* user_id -> set of room_ids
    lock,          \* ConnectionManager._lock is held (asyncio.Lock.locked())
    sess,          \* per session: position and locals of its coroutine
    log,           \* per WebSocket: the events delivered to the client
    store,         \* the ChatMessage table, in commit order
    alive,         \* per WebSocket: the transport is up (sends succeed)
    client_state,  \* per WebSocket: starlette's WebSocket.client_state
    users,         \* the ChatUser table: the ids that have a record
    page,          \* what the last call of get_chat_messages returned
    budget         \* what may still happen from outside: the sessions
                   \* opened and their requests, the inbound events,
                   \* the faults

vars == <<connections, room_users, user_rooms, lock, sess, log, store,
          alive, client_state, users, page, budget>>

\* ------------------------------------------- ordered dict (python dict)
\* a dict user_id -> WebSocket is a sequence of <<user_id, websocket>> in
\* insertion order; assigning to a present key keeps its position
DKeys(d) == {d[i][1] : i \in 1..Len(d)}

DIndex(d, k) == CHOOSE i \in 1..Len(d) : d[i][1] = k

DGet(d, k) == d[DIndex(d, k)][2]

\* an assignment that adds an entry even when the key is present
DPut_appends(d, k, v) == Append(d, <<k, v>>)

DPut(d, k, v) ==
    IF k \in DKeys(d)
    THEN SubSeq(d, 1, DIndex(d, k) - 1) \o <<<<k, v>>>>
             \o SubSeq(d, DIndex(d, k) + 1, Len(d))
    ELSE Append(d, <<k, v>>)

DDel(d, k) == SelectSeq(d, LAMBDA p : p[1] # k)

DValues(d) == {d[i][2] : i \in 1..Len(d)}

\* function f without key k (del f[k])
Without(f, k) == [x \in DOMAIN f \ {k} |-> f[x]]

\* function f with f[k] = v (f[k] = v, inserting the key when absent)
With(f, k, v) == [x \in DOMAIN f \cup {k} |-> IF x = k THEN v ELSE f[x]]

\* ------------------------------------------------------------- registry
\* the three maps of ConnectionManager and its lock as one record;
\* waits: the running coroutine has requested the lock while it was held,
\* so it is suspended in acquire() instead of running on
Registry ==
    [c |-> connections, ru |-> room_users, ur |-> user_rooms, lock |-> lock,
     waits |-> FALSE]

EmptyMap == [x \in {} |-> {}]

\* ConnectionManager.__init__
EmptyRegistry ==
    [c |-> EmptyMap, ru |-> EmptyMap, ur |-> EmptyMap, lock |-> FALSE,
     waits |-> FALSE]

\* an entry that another holder of the lock makes wait whatever the
\* state of the lock
Acquire_never_granted(reg) == [reg EXCEPT !.lock = TRUE, !.waits = TRUE]

\* async with self._lock, entry: a free lock is taken without
\* suspending; a held one makes the caller wait (asyncio.Lock is not
\* reentrant)
Acquire(reg) == [reg EXCEPT !.lock = TRUE, !.waits = @ \/ reg.lock]

\* a block that is left with the lock still held
Release_forgets(reg) == reg

\* async with self._lock, exit
Release(reg) == [reg EXCEPT !.lock = FALSE]

\* ConnectionManager.connect, the block under the lock
connect(reg, websocket, room_id, user_id) ==
    LET held == Acquire(reg)
        c0 == IF room_id \notin DOMAIN reg.c
              THEN With(reg.c, room_id, <<>>) ELSE reg.c
        ru0 == IF room_id \notin DOMAIN reg.c
               THEN With(reg.ru, room_id, {}) ELSE reg.ru
        c1 == With(c0, room_id, DPut(c0[room_id], user_id, websocket))
        ru1 == With(ru0, room_id, ru0[room_id] \cup {user_id})
        ur0 == IF user_id \notin DOMAIN reg.ur
               THEN With(reg.ur, user_id, {}) ELSE reg.ur
        ur1 == With(ur0, user_id, ur0[user_id] \cup {room_id})
    IN  Release([held EXCEPT !.c = c1, !.ru = ru1, !.ur = ur1])

\* disconnect that forgets the reverse index user_rooms
disconnect_forgets_user_rooms(reg, room_id, user_id) ==
    LET hit == room_id \in DOMAIN reg.c /\ user_id \in DKeys(reg.c[room_id])
        c1 == IF hit
              THEN With(reg.c, room_id, DDel(reg.c[room_id], user_id))
              ELSE reg.c
        ru1 == IF hit
               THEN With(reg.ru, room_id, reg.ru[room_id] \ {user_id})
               ELSE reg.ru
        gone == hit /\ c1[room_id] = <<>>
    IN  [c |-> IF gone THEN Without(c1, room_id) ELSE c1,
         ru |-> IF gone THEN Without(ru1, room_id) ELSE ru1,
         ur |-> reg.ur, lock |-> reg.lock, waits |-> reg.waits]

\* a disconnect that deletes entries and keeps the emptied containers
disconnect_keeps_empty(reg, room_id, user_id) ==
    LET hit == room_id \in DOMAIN reg.c /\ user_id \in DKeys(reg.c[room_id])
    IN  [c |-> IF hit
               THEN With(reg.c, room_id, DDel(reg.c[room_id], user_id))
               ELSE reg.c,
         ru |-> IF hit
                THEN With(reg.ru, room_id, reg.ru[room_id] \ {user_id})
                ELSE reg.ru,
         ur |-> IF user_id \in DOMAIN reg.ur
                THEN With(reg.ur, user_id, reg.ur[user_id] \ {room_id})
                ELSE reg.ur,
         lock |-> reg.lock, waits |-> reg.waits]

\* a disconnect that deletes the user's set of rooms whenever the user
\* has one
disconnect_drops_user(reg, room_id, user_id) ==
    LET hit == room_id \in DOMAIN reg.c /\ user_id \in DKeys(reg.c[room_id])
        c1 == IF hit
              THEN With(reg.c, room_id, DDel(reg.c[room_id], user_id))
              ELSE reg.c
        ru1 == IF hit
               THEN With(reg.ru, room_id, reg.ru[room_id] \ {user_id})
               ELSE reg.ru
        gone == hit /\ c1[room_id] = <<>>
    IN  [c |-> IF gone THEN Without(c1, room_id) ELSE c1,
         ru |-> IF gone THEN Without(ru1, room_id) ELSE ru1,
         ur |-> Without(reg.ur, user_id),
         lock |-> reg.lock, waits |-> reg.waits]

\* ConnectionManager.disconnect, the block under the lock
disconnect(reg, room_id, user_id) ==
    LET held == Acquire(reg)
        hit == room_id \in DOMAIN reg.c /\ user_id \in DKeys(reg.c[room_id])
        c1 == IF hit
              THEN With(reg.c, room_id, DDel(reg.c[room_id], user_id))
              ELSE reg.c
        ru1 == IF hit
               THEN With(reg.ru, room_id, reg.ru[room_id] \ {user_id})
               ELSE reg.ru
        gone == hit /\ c1[room_id] = <<>>
        c2 == IF gone THEN Without(c1, room_id) ELSE c1
        ru2 == IF gone THEN Without(ru1, room_id) ELSE ru1
        ur1 == IF user_id \in DOMAIN reg.ur
               THEN With(reg.ur, user_id, reg.ur[user_id] \ {room_id})
               ELSE reg.ur
        ur2 == IF user_id \in DOMAIN ur1 /\ ur1[user_id] = {}
               THEN Without(ur1, user_id) ELSE ur1
    IN  Release([held EXCEPT !.c = c2, !.ru = ru2, !.ur = ur2])

\* ConnectionManager.get_online_users
get_online_users(reg, room_id) ==
    IF room_id \in DOMAIN reg.ru THEN reg.ru[room_id] ELSE {}

\* --------------------------------------------------------------- events
\* an outbound event; src is the session whose code sent it
Ev(type, user, msg, info, online, can_send, src) ==
    [type |-> type, user |-> user, msg |-> msg, info |-> info,
     online |-> online, can_send |-> can_send, src |-> src]

NoEvent == Ev("none", NoUser, 0, "none", {}, FALSE, 0)

\* crud.get_chat_user_by_id as the endpoints use it: whether the id has
\* an identity record
get_chat_user_by_id(uid) == uid \in users

\* lines 251-288: the user of the token when it has an identity record
get_current_chat_user_from_token(token) ==
    LET user_id == decode_token(token)
    IN  IF user_id # NoUser /\ get_chat_user_by_id(user_id) THEN user_id
        ELSE NoUser

\* a list with a record for every registered id
OnlineUsers_unfiltered(ids) == ids

\* the online_users list built from get_online_users (lines 373-383 and
\* 500-509): one record per user id whose identity resolves
OnlineUsers(ids) == {uid \in ids : get_chat_user_by_id(uid)}

\* an inbound event as the receive loop reads it: its type, and the
\* content and client_msg_id of a message event
Data(type, content, cid) == [type |-> type, content |-> content, cid |-> cid]

NoData == Data("none", <<>>, "none")

\* ------------------------------------------------------------- sessions
\* ep: the endpoint that serves the session, "chat" for websocket_chat
\* and "main" for websocket_main; room_id, token: the parameters of the
\* coroutine; user: the user of the token; room: the room the session
\* works on (a per-room session's room_id, the room_id of the event a
\* multi-room session is handling); data: the inbound event it is
\* handling
InitSession ==
    [pc |-> "init", ep |-> "none", room_id |-> NoRoom, token |-> "none",
     room |-> NoRoom, user |-> NoUser, can_send |-> FALSE,
     code |-> 0, db |-> FALSE, registered |-> FALSE, td |-> 0,
     data |-> NoData, msg |-> 0, payload |-> NoEvent, online |-> {},
     bkind |-> "none", exclude |-> NoUser, snap |-> <<>>,
     disconnected |-> <<>>,
     \* history of the current (or last) broadcast and of the teardown
     full |-> <<>>, attempted |-> {}, skipped |-> {}, failed |-> {},
     remain |-> <<>>,
     \* the rooms the cleanup of a multi-room session iterates (line 102)
     left |-> {},
     \* whether the cleanup of a per-room session found its pair
     \* registered (the condition of line 143)
     hit |-> TRUE,
     \* the joined broadcast of lines 397-408 has been called
     joined |-> FALSE]

\* the runs explored.  Crowd: NumSessions sessions of the members of
\* one room that join, fail and leave.  Mixed: one session fewer, any
\* request, an inbound event less and the faults.  Chat: as many inbound
\* events as allowed and no fault.
Budgets ==
    {[open |-> NumSessions, events |-> 0, faults |-> MaxFaults - 1,
      reqs |-> CrowdRequests],
     [open |-> NumSessions - 1, events |-> MaxEvents - 1,
      faults |-> MaxFaults, reqs |-> Requests],
     [open |-> NumSessions - 1, events |-> MaxEvents, faults |-> 0,
      reqs |-> Requests]}

InitWith(budgets) ==
    /\ connections = EmptyRegistry.c
    /\ room_users = EmptyRegistry.ru
    /\ user_rooms = EmptyRegistry.ur
    /\ lock = EmptyRegistry.lock
    /\ sess = [s \in Sessions |-> InitSession]
    /\ log = [s \in Sessions |-> <<>>]
    /\ store = <<>>
    /\ alive = [s \in Sessions |-> TRUE]
    /\ client_state = [s \in Sessions |-> "CONNECTING"]
    /\ users = Users
    /\ page = NoPage
    /\ budget \in budgets

Init == InitWith(Budgets)

\* ------------------------------------------------------------ broadcast
\* the outcome of a session's step: its locals, the registry, and the
\* number of store and lookup calls that failed in it
Out(S, reg, dbf) == [S |-> S, reg |-> reg, dbf |-> dbf]

\* a loop body that sends to every entry
PassedOver_never(p, exclude, cs) == FALSE

\* the loop body's guards before the send (lines 170-174): the entry is
\* passed over when it is the excluded user or its client_state is not
\* CONNECTED
PassedOver(p, exclude, cs) ==
    \/ exclude # NoUser /\ p[1] = exclude
    \/ cs[p[2]] # "CONNECTED"

\* the rest of the snapshot from the first entry a send is awaited for
RECURSIVE NextPending(_, _, _)
NextPending(rest, exclude, cs) ==
    IF rest # <<>> /\ PassedOver(Head(rest), exclude, cs)
    THEN NextPending(Tail(rest), exclude, cs)
    ELSE rest

\* a broadcast that forgets the eviction
Evict_nobody(reg, room_id, disconnected) == reg

\* lines 180-182: disconnect every user collected in disconnected
RECURSIVE Evict(_, _, _)
Evict(reg, room_id, disconnected) ==
    IF disconnected = <<>> THEN reg
    ELSE Evict(disconnect(reg, room_id, Head(disconnected)), room_id,
               Tail(disconnected))

\* what follows the return of broadcast in websocket_chat: the receive
\* loop after the joined and the message broadcast, db.close() and the
\* end of the coroutine after the left broadcast; in websocket_main
\* (send_message, send_typing): its receive loop
AfterBroadcast(S) ==
    IF S.bkind = "left"
    THEN [S EXCEPT !.pc = "closed", !.db = FALSE, !.payload = NoEvent]
    ELSE IF S.ep = "main"
    THEN [S EXCEPT !.pc = "m_recv", !.payload = NoEvent, !.room = NoRoom]
    ELSE [S EXCEPT !.pc = "recv", !.payload = NoEvent]

\* a sweep that a failed send ends: the eviction and the return follow
\* at once, the entries left are not visited
Proceed_stops_at_failure(S, reg, rest, cs) ==
    LET left == IF S.disconnected # <<>> THEN <<>> ELSE rest
        nxt == NextPending(left, S.exclude, cs)
        S1 == [S EXCEPT !.snap = nxt]
    IN  IF nxt # <<>>
        THEN Out([S1 EXCEPT !.pc = "bcast"], reg, 0)
        ELSE Out(AfterBroadcast([S1 EXCEPT !.disconnected = <<>>]),
                 Evict(reg, S.room, S.disconnected), 0)

\* the sweep from the entries in rest on: up to the next awaited send, or
\* through the eviction to the return when no send is left
Proceed(S, reg, rest, cs) ==
    LET nxt == NextPending(rest, S.exclude, cs)
        over == SubSeq(rest, 1, Len(rest) - Len(nxt))
        closed == {over[i][2] : i \in {j \in 1..Len(over) :
                                          cs[over[j][2]] # "CONNECTED"}}
        S1 == [S EXCEPT !.skipped = @ \cup closed, !.snap = nxt]
    IN  IF nxt # <<>>
        THEN Out([S1 EXCEPT !.pc = "bcast"], reg, 0)
        ELSE Out(AfterBroadcast([S1 EXCEPT !.disconnected = <<>>]),
                 Evict(reg, S.room, S.disconnected), 0)

\* ConnectionManager.broadcast from its call to its first awaited send
broadcast(S, reg, kind, message, exclude_user, cs) ==
    LET S0 == [S EXCEPT !.bkind = kind, !.payload = message,
                        !.data = NoData,
                        !.exclude = exclude_user, !.disconnected = <<>>,
                        !.full = <<>>, !.attempted = {}, !.skipped = {},
                        !.failed = {}, !.snap = <<>>]
    IN  IF S.room \notin DOMAIN reg.c
        THEN Out(AfterBroadcast(S0), reg, 0)
        ELSE Proceed([S0 EXCEPT !.full = reg.c[S.room]], reg,
                     reg.c[S.room], cs)

\* a finally block without the call of disconnect
Teardown_keeps_registration(s, S, reg, cs, dbok) ==
    LET ids == get_online_users(reg, S.room)
        S1 == [S EXCEPT !.td = @ + 1, !.payload = NoEvent, !.msg = 0,
                        !.data = NoData,
                        !.hit = S.room \in DOMAIN reg.c
                                /\ S.user \in DKeys(reg.c[S.room]),
                        !.remain = IF S.room \in DOMAIN reg.c
                                   THEN reg.c[S.room] ELSE <<>>]
    IN  IF ids # {} /\ ~dbok
        THEN Out([S1 EXCEPT !.pc = "closed"], reg, 1)
        ELSE broadcast(S1, reg, "left",
                       Ev("presence_left", S.user, 0, "none",
                          OnlineUsers(ids), FALSE, s),
                       NoUser, cs)

\* the finally block of websocket_chat (lines 495-524) up to the first
\* awaited send of the left broadcast; dbok: the identity lookups succeed
Teardown(s, S, reg, cs, dbok) ==
    LET reg1 == disconnect(reg, S.room, S.user)
        ids == get_online_users(reg1, S.room)
        S1 == [S EXCEPT !.td = @ + 1, !.payload = NoEvent, !.msg = 0,
                        !.data = NoData,
                        !.hit = S.room \in DOMAIN reg.c
                                /\ S.user \in DKeys(reg.c[S.room]),
                        !.remain = IF S.room \in DOMAIN reg1.c
                                   THEN reg1.c[S.room] ELSE <<>>]
    IN  IF ids # {} /\ ~dbok
        THEN Out([S1 EXCEPT !.pc = "closed"], reg1, 1)
        ELSE broadcast(S1, reg1, "left",
                       Ev("presence_left", S.user, 0, "none",
                          OnlineUsers(ids), FALSE, s),
                       NoUser, cs)

\* the outcomes of an awaited I/O operation on a socket: it returns
\* (TRUE) or it raises because the transport is broken (FALSE); a
\* transport that breaks stays broken
IoOutcomes(websocket) ==
    IF ~alive[websocket] THEN {FALSE}
    ELSE IF budget.faults > 0 THEN {TRUE, FALSE} ELSE {TRUE}

\* 1 when the I/O on the socket is where its transport breaks
Breaks(websocket, ok) == IF alive[websocket] /\ ~ok THEN 1 ELSE 0

\* the outcome o of session s's step becomes the next state; what is the
\* kind of happening that starts the step ("open", "event", or "io" for
\* the return of an awaited send or receive on websocket with outcome ok);
\* a step whose coroutine had to wait for the lock does not complete
Commit(s, what, websocket, ok, o) ==
    \E r \in {o} :
      LET n == Breaks(websocket, ok) + r.dbf
      IN  /\ ~r.reg.waits
          /\ n <= budget.faults
          /\ what = "open" => budget.open > 0
          /\ what = "event" => budget.events > 0
          /\ budget' =
               [budget EXCEPT
                  !.open = @ - (IF what = "open" THEN 1 ELSE 0),
                  !.events = @ - (IF what = "event" THEN 1 ELSE 0),
                  !.faults = @ - n]
          /\ alive' = IF ok THEN alive ELSE [alive EXCEPT ![websocket] = FALSE]
          /\ sess' = [sess EXCEPT ![s] = r.S]
          /\ connections' = r.reg.c
          /\ room_users' = r.reg.ru
          /\ user_rooms' = r.reg.ur
          /\ lock' = r.reg.lock
          /\ users' = users
          /\ page' = page

\* o with one more failed store or lookup call
Failing(o) == [o EXCEPT !.dbf = @ + 1]

\* send_json on the socket returned: the client has the event
Deliver(websocket, ok, event) ==
    log' = IF ok THEN [log EXCEPT ![websocket] = Append(@, event)] ELSE log

\* -------------------------------------------------------------- actions
\* a refusal that registers the connection before it closes it
Refused_after_connect(s, S, reg, reason) ==
    Out([S EXCEPT !.pc = "closed", !.code = CloseCode(reason)],
        connect(reg, s, S.room_id, get_current_chat_user_from_token(S.token)),
        0)

\* a failed validation (lines 339-340, 344-345, 350-351, 356-357): the
\* socket is closed with the code of the reason and the coroutine returns
Refused(s, S, reg, reason) ==
    Out([S EXCEPT !.pc = "closed", !.code = CloseCode(reason)], reg, 0)

\* websocket_chat, lines 333-394: the four validations, each closing the
\* socket with its code; then accept, connect, the reads of the history
\* and of the online users, up to the awaited send of the connected
\* event.  Nothing shared is read or written before accept returns, so
\* the await of accept is not a separate step.  Sessions are numbered in
\* the order in which they are opened.
Open(s) ==
    /\ sess[s].pc = "init"
    /\ budget.open > 0
    /\ \A t \in Sessions : t < s => sess[t].pc # "init"
    /\ \E req \in budget.reqs :
         LET room_id == req[1]
             user == get_current_chat_user_from_token(req[2])
             role == get_chat_room_member(room_id, user)
             S == [sess[s] EXCEPT !.db = TRUE, !.ep = "chat",
                                  !.room_id = room_id, !.token = req[2]]
             J == [S EXCEPT !.room = room_id, !.user = user,
                            !.can_send = (role # "VIEWER"),
                            !.registered = TRUE]
             cs == [client_state EXCEPT ![s] = "CONNECTED"]
             reg1 == connect(Registry, s, room_id, user)
             online_users == OnlineUsers(get_online_users(reg1, room_id))
             Refuse(reason) ==
                 Commit(s, "open", s, TRUE, Refused(s, S, Registry, reason))
                     /\ UNCHANGED client_state
         IN  IF ~IsUUID(room_id) THEN Refuse("format")
             ELSE IF ~get_chat_room_by_id(room_id) THEN Refuse("room")
             ELSE IF user = NoUser THEN Refuse("token")
             ELSE IF role = "none" THEN Refuse("member")
             ELSE
               \/ \* accept raises before the try block is entered
                  /\ FALSE \in IoOutcomes(s)
                  /\ Commit(s, "open", s, FALSE,
                            Out([S EXCEPT !.pc = "closed"], Registry, 0))
                  /\ UNCHANGED client_state
               \/ \* the history and the online users are read
                  /\ Commit(s, "open", s, TRUE,
                            Out([J EXCEPT
                                   !.pc = "connected",
                                   !.online = online_users,
                                   !.payload = Ev("connected", user, 0,
                                                  "none", online_users,
                                                  J.can_send, s)],
                                reg1, 0))
                  /\ client_state' = cs
               \/ \* get_chat_messages or get_chat_user_by_id raises
                  /\ \E tdok \in BOOLEAN :
                       Commit(s, "open", s, TRUE,
                              Failing(Teardown(s, J, reg1, cs, tdok)))
                  /\ client_state' = cs
    /\ UNCHANGED <<log, store>>

\* lines 385-408: the send of the connected event returns, then the
\* joined presence is broadcast; a failed send leaves through finally
SendConnected(s) ==
    /\ sess[s].pc = "connected"
    /\ \E ok \in IoOutcomes(s), tdok \in BOOLEAN :
         LET S == sess[s]
         IN  /\ Deliver(s, ok, S.payload)
             /\ Commit(s, "io", s, ok,
                   IF ok
                   THEN broadcast([S EXCEPT !.joined = TRUE], Registry,
                                  "joined",
                                  Ev("presence_joined", S.user, 0, "none",
                                     S.online, FALSE, s),
                                  NoUser, client_state)
                   ELSE Teardown(s, S, Registry, client_state, tdok))
    /\ UNCHANGED <<store, client_state>>

\* ConnectionManager.broadcast, lines 169-182: the awaited send_json of
\* the sweep returns or raises, then the sweep goes on
BcastSend(s) ==
    /\ sess[s].pc = "bcast"
    /\ LET S == sess[s]
           user_id == Head(S.snap)[1]
           websocket == Head(S.snap)[2]
           S1 == [S EXCEPT !.attempted = @ \cup {websocket}]
       IN  \E ok \in IoOutcomes(websocket) :
             /\ Deliver(websocket, ok, S.payload)
             /\ Commit(s, "io", websocket, ok,
                   Proceed(IF ok THEN S1
                           ELSE [S1 EXCEPT
                                   !.disconnected = Append(@, user_id),
                                   !.failed = @ \cup {websocket}],
                           Registry, Tail(S.snap), client_state))
    /\ UNCHANGED <<store, client_state>>

\* a handler that unregisters the session before it answers
Handler_unregisters(s, S) ==
    Out([S EXCEPT !.pc = "errreply", !.msg = 0, !.data = NoData,
                  !.payload = Ev("error", NoUser, 0, "exception", {},
                                 FALSE, s)],
        disconnect(Registry, S.room, S.user), 0)

\* an exception other than WebSocketDisconnect raised inside the inner
\* try of the receive loop: it is answered from the handler of lines
\* 485-493, whose send is awaited next
Handler(s, S) ==
    Out([S EXCEPT !.pc = "errreply", !.msg = 0, !.data = NoData,
                  !.payload = Ev("error", NoUser, 0, "exception", {},
                                 FALSE, s)],
        Registry, 0)

\* a send inside the inner try raised: WebSocketDisconnect breaks out of
\* the loop (line 478), any other exception goes to the handler
SendRaised(s, S, wsd, tdok) ==
    IF wsd THEN Teardown(s, S, Registry, client_state, tdok)
    ELSE Handler(s, S)

\* create_chat_message: the committed row; by and cid record the session
\* and the client_msg_id of the event that produced it
Row(s, S, content, cid) ==
    [room |-> S.room, sender |-> S.user, content |-> content, by |-> s,
     cid |-> cid]

\* an ack that does not echo the client_msg_id
AckEvent_drops_cid(s, message_id, client_msg_id) ==
    Ev("ack", NoUser, message_id, "none", {}, FALSE, s)

\* the ack of lines 457-462
AckEvent(s, message_id, client_msg_id) ==
    Ev("ack", NoUser, message_id, client_msg_id, {}, FALSE, s)

\* a message handler without the check of can_send
OnMessage_ignores_role(s, S, text, cid, dbok) ==
    IF Strip(text) = <<>>
    THEN [o |-> Out([S EXCEPT !.pc = "reply",
                              !.payload = Ev("error", NoUser, 0, "empty",
                                             {}, FALSE, s)],
                    Registry, 0),
          st |-> store]
    ELSE [o |-> Out([S EXCEPT !.pc = "ack", !.msg = Len(store) + 1,
                              !.payload = AckEvent(s, Len(store) + 1, cid)],
                    Registry, 0),
          st |-> Append(store, Row(s, S, Strip(text), cid))]

\* lines 422-454: a message event up to the send it answers with
OnMessage(s, S, text, cid, dbok) ==
    LET content == Strip(text)
        Answer(reason) ==
            [S EXCEPT !.pc = "reply",
                      !.payload = Ev("error", NoUser, 0, reason, {}, FALSE,
                                     s)]
    IN  IF ~S.can_send THEN [o |-> Out(Answer("viewer"), Registry, 0),
                             st |-> store]
        ELSE IF content = <<>>
        THEN [o |-> Out(Answer("empty"), Registry, 0), st |-> store]
        ELSE IF dbok
        THEN [o |-> Out([S EXCEPT !.pc = "ack",
                                  !.msg = Len(store) + 1,
                                  !.payload = AckEvent(s, Len(store) + 1,
                                                       cid)],
                        Registry, 0),
              st |-> Append(store, Row(s, S, content, cid))]
        ELSE [o |-> Failing(Handler(s, S)), st |-> store]

\* a loop that goes on after receive_json raised WebSocketDisconnect
RecvDisconnect_continues(s) ==
    /\ sess[s].pc = "recv"
    /\ FALSE \in IoOutcomes(s)
    /\ client_state[s] = "CONNECTED"
    /\ client_state' = [client_state EXCEPT ![s] = "DISCONNECTED"]
    /\ Commit(s, "io", s, FALSE, Out(sess[s], Registry, 0))
    /\ UNCHANGED <<log, store>>

\* line 413: receive_json raises WebSocketDisconnect; break, finally
RecvDisconnect(s) ==
    /\ sess[s].pc = "recv"
    /\ FALSE \in IoOutcomes(s)
    /\ client_state' = [client_state EXCEPT ![s] = "DISCONNECTED"]
    /\ \E tdok \in BOOLEAN :
         Commit(s, "io", s, FALSE,
                Teardown(s, sess[s], Registry, client_state', tdok))
    /\ UNCHANGED <<log, store>>

\* lines 413-476: receive_json returns an event, which is dispatched up
\* to the send it answers with
Recv(s) ==
    /\ sess[s].pc = "recv"
    /\ alive[s]
    /\ budget.events > 0
    /\ LET S == sess[s]
           Answer(in, pc, type, reason) ==
               Out([S EXCEPT !.pc = pc, !.data = Data(in, <<>>, "none"),
                             !.payload = Ev(type, NoUser, 0, reason, {},
                                            FALSE, s)],
                   Registry, 0)
       IN  \/ \* {"type": "ping"}
              /\ Commit(s, "event", s, TRUE,
                        Answer("ping", "reply", "pong", "none"))
              /\ UNCHANGED store
           \/ \* {"type": "message", "content": ..., "client_msg_id": ...}
              \E text \in Contents, cid \in Cids, dbok \in BOOLEAN :
                  \E r \in {OnMessage(s, [S EXCEPT !.data =
                                             Data("message", text, cid)],
                                      text, cid, dbok)} :
                      Commit(s, "event", s, TRUE, r.o) /\ store' = r.st
           \/ \* an event of a type the loop does not know
              /\ Commit(s, "event", s, TRUE,
                        Answer("other", "reply", "error", "unknown"))
              /\ UNCHANGED store
           \/ \* a frame that is no JSON: json.JSONDecodeError
              /\ Commit(s, "event", s, TRUE,
                        Answer("unparsable", "jsonreply", "error", "json"))
              /\ UNCHANGED store
    /\ UNCHANGED <<log, client_state>>

\* a return to the loop that unregisters the session on its way
Resume_unregisters(S) ==
    Out([S EXCEPT !.pc = "recv", !.payload = NoEvent, !.data = NoData],
        disconnect(Registry, S.room, S.user), 0)

\* the session goes back to the await of receive_json
Resume(S) ==
    Out([S EXCEPT !.pc = "recv", !.payload = NoEvent, !.data = NoData],
        Registry, 0)

\* lines 417, 424, 432, 473: the send of a pong or of an error reply
\* inside the inner try returns or raises
Reply(s) ==
    /\ sess[s].pc = "reply"
    /\ \E ok \in IoOutcomes(s), wsd \in BOOLEAN, tdok \in BOOLEAN :
         LET S == sess[s]
         IN  /\ Deliver(s, ok, S.payload)
             /\ Commit(s, "io", s, ok,
                   IF ok THEN Resume(S) ELSE SendRaised(s, S, wsd, tdok))
    /\ UNCHANGED <<store, client_state>>

\* lines 457-470: the send of the ack returns, the stored message is
\* converted (an identity lookup) and broadcast to the room
Ack(s) ==
    /\ sess[s].pc = "ack"
    /\ \E ok \in IoOutcomes(s), wsd \in BOOLEAN, dbok \in BOOLEAN,
          tdok \in BOOLEAN :
         LET S == sess[s]
         IN  /\ Deliver(s, ok, S.payload)
             /\ Commit(s, "io", s, ok,
                   IF ~ok THEN SendRaised(s, S, wsd, tdok)
                   ELSE IF ~dbok THEN Failing(Handler(s, S))
                   ELSE broadcast(S, Registry, "message",
                                  Ev("message", S.user, S.msg, "none", {},
                                     FALSE, s),
                                  NoUser, client_state))
    /\ UNCHANGED <<store, client_state>>

\* an Invalid JSON reply after which the session leaves its loop
JsonReply_leaves(s) ==
    /\ sess[s].pc = "jsonreply"
    /\ \E ok \in IoOutcomes(s), tdok \in BOOLEAN :
         /\ Deliver(s, ok, sess[s].payload)
         /\ Commit(s, "io", s, ok,
                   Teardown(s, sess[s], Registry, client_state, tdok))
    /\ UNCHANGED <<store, client_state>>

\* lines 480-484: the send of the Invalid JSON reply; it is awaited in
\* the except clause, so its failure leaves the loop through finally
JsonReply(s) ==
    /\ sess[s].pc = "jsonreply"
    /\ \E ok \in IoOutcomes(s), tdok \in BOOLEAN :
         LET S == sess[s]
         IN  /\ Deliver(s, ok, S.payload)
             /\ Commit(s, "io", s, ok,
                   IF ok THEN Resume(S)
                   ELSE Teardown(s, S, Registry, client_state, tdok))
    /\ UNCHANGED <<store, client_state>>

\* lines 485-493: the send of the error reply of the generic handler;
\* when it raises too the loop is left (break)
ErrReply(s) ==
    /\ sess[s].pc = "errreply"
    /\ \E ok \in IoOutcomes(s), tdok \in BOOLEAN :
         LET S == sess[s]
         IN  /\ Deliver(s, ok, S.payload)
             /\ Commit(s, "io", s, ok,
                   IF ok THEN Resume(S)
                   ELSE Teardown(s, S, Registry, client_state, tdok))
    /\ UNCHANGED <<store, client_state>>

Step(s) ==
    \/ Open(s)
    \/ SendConnected(s)
    \/ BcastSend(s)
    \/ RecvDisconnect(s)
    \/ Recv(s)
    \/ Reply(s)
    \/ Ack(s)
    \/ JsonReply(s)
    \/ ErrReply(s)

Next == \E s \in Sessions : Step(s)

Spec == Init /\ [][Next]_vars

\* the sequential runs: while a session is inside a broadcast no other
\* session takes a step; three members of one room join, or two sessions
\* exchange events
SeqBudgets ==
    {[open |-> NumSessions, events |-> 0, faults |-> MaxFaults - 1,
      reqs |-> TrioRequests],
     [open |-> NumSessions - 1, events |-> MaxEvents - 1,
      faults |-> MaxFaults, reqs |-> Requests]}

SeqInit == InitWith(SeqBudgets)

\* no session other than s is inside a broadcast
Quiet(s) == \A t \in Sessions \ {s} : sess[t].pc # "bcast"

SeqNext ==
    \E s \in Sessions :
        \/ Quiet(s) /\ Open(s)
        \/ Quiet(s) /\ SendConnected(s)
        \/ Quiet(s) /\ BcastSend(s)
        \/ Quiet(s) /\ RecvDisconnect(s)
        \/ Quiet(s) /\ Recv(s)
        \/ Quiet(s) /\ Reply(s)
        \/ Quiet(s) /\ Ack(s)
        \/ Quiet(s) /\ JsonReply(s)
        \/ Quiet(s) /\ ErrReply(s)

SeqSpec == SeqInit /\ [][SeqNext]_vars

\* ------------------------------------------- the generic endpoint, /ws
\* websocket_main serves a multi-room session: the client joins and
\* leaves rooms and sends messages by events that name the room.
\* the room_id values of its inbound events; "" is an absent or empty one
MainRoomIds == Rooms \cup {""}

MainTokens == {"t1", "t2", "tx"}

\* a cleanup that leaves one room only
LeaveRooms_one_room(reg, rooms, user_id) ==
    IF rooms = {} THEN reg
    ELSE disconnect(reg, CHOOSE r \in rooms : TRUE, user_id)

\* lines 100-103: leave_room for every room registered for the user
RECURSIVE LeaveRooms(_, _, _)
LeaveRooms(reg, rooms, user_id) ==
    IF rooms = {} THEN reg
    ELSE LET room_id == CHOOSE r \in rooms : TRUE
         IN  LeaveRooms(disconnect(reg, room_id, user_id),
                        rooms \ {room_id}, user_id)

\* the end of websocket_main: the finally block, after which the
\* coroutine returns or the exception propagates; there is no db.close()
MainTeardown(S, reg) ==
    LET rooms == IF S.user \in DOMAIN reg.ur THEN reg.ur[S.user] ELSE {}
    IN  Out([S EXCEPT !.pc = "closed", !.td = @ + 1, !.payload = NoEvent,
                      !.data = NoData, !.room = NoRoom, !.left = rooms],
            LeaveRooms(reg, rooms, S.user), 0)

\* lines 53-64: the token is validated, the socket accepted, and the
\* loop awaits the first event
MainOpen(s) ==
    /\ sess[s].pc = "init"
    /\ budget.open > 0
    /\ \A t \in Sessions : t < s => sess[t].pc # "init"
    /\ \E token \in budget.tokens :
         LET user == get_current_chat_user_from_token(token)
             S == [sess[s] EXCEPT !.db = TRUE, !.ep = "main",
                                  !.token = token]
         IN  IF user = NoUser
             THEN /\ Commit(s, "open", s, TRUE,
                            Refused(s, S, Registry, "token"))
                  /\ UNCHANGED client_state
             ELSE \/ \* accept raises
                     /\ FALSE \in IoOutcomes(s)
                     /\ Commit(s, "open", s, FALSE,
                               Out([S EXCEPT !.pc = "closed"], Registry, 0))
                     /\ UNCHANGED client_state
                  \/ /\ Commit(s, "open", s, TRUE,
                               Out([S EXCEPT !.pc = "m_recv",
                                             !.user = user],
                                   Registry, 0))
                     /\ client_state' =
                            [client_state EXCEPT ![s] = "CONNECTED"]
    /\ UNCHANGED <<log, store>>

\* ConnectionManager.send_message (lines 196-226) as lines 77-84 call it:
\* the event is ignored unless room_id and content are truthy; the row is
\* created with the content as received and broadcast to the room; an
\* exception of the store propagates out of the loop
MainMessage(s, S, room_id, content, dbok) ==
    LET S1 == [S EXCEPT !.room = room_id]
    IN  IF room_id = "" \/ content = <<>>
        THEN [o |-> Out(S, Registry, 0), st |-> store]
        ELSE IF ~dbok
        THEN [o |-> Failing(MainTeardown(S, Registry)), st |-> store]
        ELSE [o |-> broadcast([S1 EXCEPT !.msg = Len(store) + 1],
                              Registry, "message",
                              Ev("message", S.user, Len(store) + 1, "none",
                                 {}, FALSE, s),
                              NoUser, client_state),
              st |-> Append(store, Row(s, S1, content, "none"))]

\* lines 64-96: receive_json returns an event, which is dispatched up to
\* the next awaited I/O; connect and disconnect do not suspend
MainRecv(s) ==
    /\ sess[s].pc = "m_recv"
    /\ alive[s]
    /\ budget.events > 0
    /\ LET S == sess[s]
       IN  \/ \* {"type": "join_room", "payload": {"room_id": ...}}
              \E room_id \in MainRoomIds :
                /\ Commit(s, "event", s, TRUE,
                      IF room_id = "" THEN Out(S, Registry, 0)
                      ELSE Out([S EXCEPT !.registered = TRUE],
                               connect(Registry, s, room_id, S.user), 0))
                /\ UNCHANGED store
           \/ \* {"type": "leave_room", "payload": {"room_id": ...}}
              \E room_id \in MainRoomIds :
                /\ Commit(s, "event", s, TRUE,
                      IF room_id = "" THEN Out(S, Registry, 0)
                      ELSE Out(S, disconnect(Registry, room_id, S.user), 0))
                /\ UNCHANGED store
           \/ \* {"type": "message", "payload": {"room_id", "content"}}
              \E room_id \in MainRoomIds, content \in Contents,
                 dbok \in BOOLEAN :
                  \E r \in {MainMessage(s, S, room_id, content, dbok)} :
                      Commit(s, "event", s, TRUE, r.o) /\ store' = r.st
           \/ \* {"type": "typing", "payload": {"room_id": ...}}
              \E room_id \in MainRoomIds :
                /\ Commit(s, "event", s, TRUE,
                      IF room_id = "" THEN Out(S, Registry, 0)
                      ELSE broadcast([S EXCEPT !.room = room_id], Registry,
                                     "typing",
                                     Ev("typing", S.user, 0, "none", {},
                                        FALSE, s),
                                     NoUser, client_state))
                /\ UNCHANGED store
           \/ \* {"type": "ping"}
              /\ Commit(s, "event", s, TRUE,
                        Out([S EXCEPT !.pc = "m_pong",
                                      !.data = Data("ping", <<>>, "none"),
                                      !.payload = Ev("pong", NoUser, 0,
                                                     "none", {}, FALSE, s)],
                            Registry, 0))
              /\ UNCHANGED store
           \/ \* an event of any other type: no branch, the loop goes on
              /\ Commit(s, "event", s, TRUE, Out(S, Registry, 0))
              /\ UNCHANGED store
           \/ \* a frame that is no JSON: the exception leaves the loop
              /\ Commit(s, "event", s, TRUE, MainTeardown(S, Registry))
              /\ UNCHANGED store
    /\ UNCHANGED <<log, client_state>>

\* line 64 raises WebSocketDisconnect: pass, finally
MainRecvDisconnect(s) ==
    /\ sess[s].pc = "m_recv"
    /\ FALSE \in IoOutcomes(s)
    /\ client_state' = [client_state EXCEPT ![s] = "DISCONNECTED"]
    /\ Commit(s, "io", s, FALSE, MainTeardown(sess[s], Registry))
    /\ UNCHANGED <<log, store>>

\* line 96: the send of the pong returns, or raises and leaves the loop
MainPong(s) ==
    /\ sess[s].pc = "m_pong"
    /\ \E ok \in IoOutcomes(s) :
         LET S == sess[s]
         IN  /\ Deliver(s, ok, S.payload)
             /\ Commit(s, "io", s, ok,
                   IF ok
                   THEN Out([S EXCEPT !.pc = "m_recv", !.payload = NoEvent,
                                      !.data = NoData],
                            Registry, 0)
                   ELSE MainTeardown(S, Registry))
    /\ UNCHANGED <<store, client_state>>

\* the runs of both endpoints side by side
MainBudgets ==
    {[open |-> NumSessions - 1, events |-> MaxEvents,
      faults |-> MaxFaults - 1,
      reqs |-> {<<"r1", "t1">>, <<"r2", "t1">>}, tokens |-> MainTokens]}

MainInit == InitWith(MainBudgets)

MainNext ==
    \E s \in Sessions :
        \/ Step(s)
        \/ MainOpen(s)
        \/ MainRecv(s)
        \/ MainRecvDisconnect(s)
        \/ MainPong(s)

MainSpec == MainInit /\ [][MainNext]_vars

\* ---------------------------------------------------- fair scheduling
\* the runs on which progress is checked: two sessions of the members of
\* one room, an inbound event, a fault
FairBudgets ==
    {[open |-> NumSessions - 1, events |-> MaxEvents - 1,
      faults |-> MaxFaults - 1, reqs |-> CrowdRequests]}

FairInit == InitWith(FairBudgets)

\* an awaited send_json returns or raises: the event loop resumes the
\* coroutine that awaits it.  Nothing makes a client send an event or
\* disconnect, so the receives are not fair.
SendReturns(s) ==
    \/ SendConnected(s)
    \/ BcastSend(s)
    \/ Reply(s)
    \/ Ack(s)
    \/ JsonReply(s)
    \/ ErrReply(s)

FairSpec ==
    FairInit /\ [][Next]_vars /\ \A s \in Sessions : WF_vars(SendReturns(s))

\* ============================================================ properties
\* the user ids that are keys of connections[room_id]
InConnections(room_id, user_id) ==
    room_id \in DOMAIN connections /\ user_id \in DKeys(connections[room_id])

InRoomUsers(room_id, user_id) ==
    room_id \in DOMAIN room_users /\ user_id \in room_users[room_id]

InUserRooms(room_id, user_id) ==
    user_id \in DOMAIN user_rooms /\ room_id \in user_rooms[user_id]

\* the entries of the dicts conns for the pair
EntriesIn(conns, room_id, user_id) ==
    IF room_id \in DOMAIN conns
    THEN {i \in 1..Len(conns[room_id]) : conns[room_id][i][1] = user_id}
    ELSE {}

EntriesOf(room_id, user_id) == EntriesIn(connections, room_id, user_id)

\* C1: in every reachable state, so after every connect, disconnect and
\* eviction of any interleaving, the three views agree: U is a key of
\* connections[R] iff U is in room_users[R] iff R is in user_rooms[U],
\* and a registered pair maps to exactly one connection.
C1_ViewsAgree ==
    \A R \in RoomIds, U \in Users \cup {NoUser} :
        /\ InConnections(R, U) <=> InRoomUsers(R, U)
        /\ InRoomUsers(R, U) <=> InUserRooms(R, U)
        /\ InConnections(R, U) => Cardinality(EntriesOf(R, U)) = 1

\* a session has left through its teardown, and another, still
\* registered, is back in its loop after a sweep that evicted a connection
C1_Witness ==
    \E s, t \in Sessions :
        /\ sess[s].pc = "closed" /\ sess[s].td = 1
        /\ sess[t].pc = "recv" /\ sess[t].failed # {}
        /\ InConnections(sess[t].room, sess[t].user)

\* session s's step is the connect of websocket_chat (line 366), after
\* which it awaits the send of the connected event
Connects(s) == sess[s].pc = "init" /\ sess'[s].pc = "connected"

\* session s's step calls broadcast, which takes its snapshot
StartsSweep(s) ==
    /\ sess[s].pc \notin {"bcast", "closed"}
    /\ \/ sess'[s].bkind # sess[s].bkind
       \/ sess[s].pc = "ack" /\ sess'[s].pc \in {"bcast", "recv"}

\* the connection of the most recent connect for the pair among the
\* sessions ss: sessions are numbered in the order of their connects
LatestIn(ss, room_id, user_id) ==
    LET of == {s \in Sessions : /\ ss[s].registered
                                /\ ss[s].room = room_id
                                /\ ss[s].user = user_id}
    IN  CHOOSE s \in of : \A t \in of : t <= s

\* C2: a connect for (R,U) with connection c leaves exactly one entry for
\* (R,U), mapping to c: it replaces a present entry instead of adding to
\* it, repeating it leaves the registry unchanged, and the snapshot of a
\* broadcast started afterwards holds, for each of its users, the
\* connection of the latest connect only, never a replaced one.
C2_ConnectReplaces ==
    [][\A s \in Sessions :
         /\ Connects(s) =>
               LET R == sess'[s].room
                   U == sess'[s].user
               IN  /\ Cardinality(EntriesIn(connections', R, U)) = 1
                   /\ DGet(connections'[R], U) = s
                   /\ Len(connections'[R]) =
                        (IF R \notin DOMAIN connections THEN 1
                         ELSE IF InConnections(R, U)
                         THEN Len(connections[R])
                         ELSE Len(connections[R]) + 1)
                   /\ connect(Registry', s, R, U) = Registry'
         /\ StartsSweep(s) =>
               \A i \in 1..Len(sess'[s].full) :
                   sess'[s].full[i][2] =
                       LatestIn(sess', sess'[s].room, sess'[s].full[i][1])
      ]_vars

\* a second session of the same user has replaced the connection of a
\* first, still running, one in the same room, and has sent its joined
\* broadcast, which the replaced connection has not received
C2_Witness ==
    \E s, t \in Sessions :
        /\ s < t
        /\ sess[s].pc = "recv" /\ sess[t].pc = "recv"
        /\ sess[s].room = sess[t].room /\ sess[s].user = sess[t].user
        /\ InConnections(sess[t].room, sess[t].user)
        /\ DGet(connections[sess[t].room], sess[t].user) = t
        /\ sess[t].bkind = "joined" /\ sess[t].attempted = {t}
        /\ \A i \in 1..Len(log[s]) : log[s][i].src # t

\* session s's step is the last of a sweep: broadcast returns in it
SweepEnds(s) == sess[s].pc = "bcast" /\ sess'[s].pc # "bcast"

\* the connections of the snapshot of S's sweep, the excluded user apart
Recipients(S) ==
    {S.full[i][2] : i \in {j \in 1..Len(S.full) : S.full[j][1] # S.exclude}}

\* the payload of S's sweep is among the events delivered to websocket
Delivered(lg, S, websocket) ==
    \E i \in 1..Len(lg[websocket]) : lg[websocket][i] = S.payload

\* C3 as stated: when a send of a sweep has failed, a send has been
\* attempted to every other connection of the snapshot by the time
\* broadcast returns, and it returns normally.
C3_SendToEverySnapshotConnection ==
    [][\A s \in Sessions :
         SweepEnds(s) /\ sess'[s].failed # {} =>
             /\ sess'[s].attempted = Recipients(sess'[s])
             /\ sess'[s].pc \in {"recv", "closed"}
      ]_vars

\* C3, amended: a failed send does not stop the sweep: every other
\* connection of the snapshot either has had a send attempted, which
\* delivered the payload unless it failed too, or was passed over because
\* its client_state was no longer CONNECTED at its turn; broadcast returns
\* normally, to the receive loop after a joined or message broadcast and
\* to the end of the teardown after a left broadcast.
C3_FailureIsolation ==
    [][\A s \in Sessions :
         SweepEnds(s) /\ sess'[s].failed # {} =>
             /\ sess'[s].attempted \cup sess'[s].skipped
                    = Recipients(sess'[s])
             /\ sess'[s].attempted \cap sess'[s].skipped = {}
             /\ \A c \in sess'[s].skipped : client_state'[c] # "CONNECTED"
             /\ \A c \in sess'[s].attempted \ sess'[s].failed :
                    Delivered(log', sess[s], c)
             /\ sess'[s].pc =
                    (IF sess[s].bkind = "left" THEN "closed" ELSE "recv")
      ]_vars

\* a sweep whose first send failed has gone on to the next connection,
\* delivered the payload there, and has returned to the receive loop
C3_Witness ==
    \E s \in Sessions :
        /\ sess[s].pc = "recv" /\ sess[s].bkind \in {"joined", "message"}
        /\ Len(sess[s].full) >= 2
        /\ sess[s].full[1][2] \in sess[s].failed
        /\ sess[s].full[2][2] \in sess[s].attempted \ sess[s].failed
        /\ log[sess[s].full[2][2]] # <<>>

\* the entries of the snapshot of S's sweep whose send did not fail
LiveEntries(S) == SelectSeq(S.full, LAMBDA p : p[2] \notin S.failed)

\* the dict registered for the room, empty when the room has no key
RoomDict(conns, room_id) ==
    IF room_id \in DOMAIN conns THEN conns[room_id] ELSE <<>>

Removed(d, e) ==
    {d[i] : i \in {j \in 1..Len(d) : \A k \in 1..Len(e) : e[k] # d[j]}}

\* C5: the eviction that follows a sweep removes from the registry only
\* entries of connections whose send failed in that sweep, whatever the
\* other sessions connected and disconnected while it was running.
C5_EvictsOnlyFailed ==
    [][\A s \in Sessions :
         SweepEnds(s) =>
             \A p \in Removed(RoomDict(connections, sess[s].room),
                              RoomDict(connections', sess[s].room)) :
                 p[2] \in sess'[s].failed
      ]_vars

\* C6: every connection receives the broadcast copies of the messages of
\* its room in the order in which the store persisted them; message ids
\* are positions in the store, that is the commit order.
C6_BroadcastInPersistOrder ==
    \A c \in Sessions :
        \A i, j \in 1..Len(log[c]) :
            /\ i < j
            /\ log[c][i].type = "message"
            /\ log[c][j].type = "message"
            => log[c][i].msg < log[c][j].msg

\* the places <<connection, index>> of the events of a type about
\* message m in the logs
Places(type, m) ==
    UNION {{<<c, i>> : i \in {k \in 1..Len(log[c]) :
                                  /\ log[c][k].type = type
                                  /\ log[c][k].msg = m}} : c \in Sessions}

\* a broadcast of message m is in progress
Sweeping(m) ==
    \E s \in Sessions :
        /\ sess[s].pc = "bcast"
        /\ sess[s].payload.type = "message"
        /\ sess[s].payload.msg = m

\* C7: for every accepted message the row is stored first; then one ack
\* with the client's client_msg_id and the row's id goes to the sending
\* connection only; only then is the message broadcast, with no user
\* excluded; so in the sender's log the ack comes before its own copy.
C7_StoreAckBroadcast ==
    /\ \A c \in Sessions : \A i \in 1..Len(log[c]) :
          LET e == log[c][i]
          IN  /\ e.type = "ack" =>
                    /\ e.msg \in 1..Len(store)
                    /\ store[e.msg].by = c
                    /\ store[e.msg].cid = e.info
                    /\ e.src = c
              /\ e.type = "message" =>
                    /\ e.msg \in 1..Len(store)
                    /\ Places("ack", e.msg) # {}
                    /\ store[e.msg].by = c =>
                          \E j \in 1..(i - 1) :
                              /\ log[c][j].type = "ack"
                              /\ log[c][j].msg = e.msg
    /\ \A m \in 1..Len(store) :
          /\ Cardinality(Places("ack", m)) <= 1
          /\ Sweeping(m) => Cardinality(Places("ack", m)) = 1
    /\ \A s \in Sessions :
          sess[s].pc = "bcast" /\ sess[s].bkind = "message" =>
              /\ sess[s].exclude = NoUser
              /\ sess[s].payload.msg = sess[s].msg
              /\ store[sess[s].msg].by = s

\* a sender has its ack, echoing the client_msg_id, and after it its
\* own broadcast copy, and another connection has the copy too
C7_Witness ==
    \E s, t \in Sessions : \E i, j \in 1..Len(log[s]) :
        /\ s # t /\ i < j
        /\ log[s][i].type = "ack" /\ log[s][i].info = "c1"
        /\ log[s][j].type = "message" /\ log[s][j].msg = log[s][i].msg
        /\ \E k \in 1..Len(log[t]) :
               /\ log[t][k].type = "message"
               /\ log[t][k].msg = log[s][i].msg

\* the pair of session s is in none of the views of the registry reg
PairAbsent(reg, S) ==
    /\ S.room \notin DOMAIN reg.c \/ S.user \notin DKeys(reg.c[S.room])
    /\ S.room \notin DOMAIN reg.ru \/ S.user \notin reg.ru[S.room]
    /\ S.user \notin DOMAIN reg.ur \/ S.room \notin reg.ur[S.user]

\* the connection is an entry of no dict of conns
Unregistered(conns, websocket) ==
    \A R \in DOMAIN conns : websocket \notin DValues(conns[R])

\* C8 as stated: a session that called connect runs its teardown once
\* and reaches CLOSED once, and when it is CLOSED its (room,user) pair
\* is in none of the three views.
C8_PairAbsentWhenClosed ==
    [][\A s \in Sessions :
         /\ sess'[s].td <= 1
         /\ sess[s].pc = "closed" => sess'[s].pc = "closed"
         /\ sess[s].pc # "closed" /\ sess'[s].pc = "closed"
               /\ sess'[s].registered
               => sess'[s].td = 1 /\ PairAbsent(Registry', sess'[s])
      ]_vars

\* session s is inside its teardown: the finally block has begun and the
\* coroutine has not ended
InTeardown(S) == S.td = 1 /\ S.pc # "closed"

\* C8, amended: a session that called connect runs its teardown once,
\* whichever way it leaves; the teardown's disconnect leaves its pair in
\* none of the three views; from then on its own connection is
\* registered for no pair, also when it is CLOSED (the pair itself may
\* by then be registered again by a later session of the same user); the
\* session reaches CLOSED, once: inside the teardown its awaited send
\* can always return, every step it takes shortens what is left of its
\* sweep or closes it, and CLOSED is never left.
C8_TeardownOnce ==
    /\ [](\A s \in Sessions :
            /\ sess[s].td <= 1
            /\ sess[s].td = 1 => Unregistered(connections, s)
            /\ sess[s].pc = "closed" /\ sess[s].registered
                  => sess[s].td = 1
            /\ InTeardown(sess[s]) =>
                  /\ sess[s].pc = "bcast" /\ sess[s].bkind = "left"
                  /\ ENABLED BcastSend(s))
    /\ [][\A s \in Sessions :
            /\ sess[s].pc = "closed" => sess'[s] = sess[s]
            /\ sess'[s].td # sess[s].td =>
                  /\ sess'[s].registered
                  /\ sess'[s].td = 1
                  /\ PairAbsent(Registry', sess'[s])
            /\ InTeardown(sess[s]) /\ sess'[s] # sess[s] =>
                  \/ sess'[s].pc = "closed"
                  \/ /\ InTeardown(sess'[s])
                     /\ Len(sess'[s].snap) < Len(sess[s].snap)
         ]_vars

\* a session has left on a client disconnect and run its teardown; it
\* is CLOSED, its connection is registered nowhere, and its pair is
\* registered by a later session of its user
C8_Witness ==
    \E s, t \in Sessions :
        /\ s < t
        /\ sess[s].pc = "closed" /\ sess[s].td = 1
        /\ client_state[s] = "DISCONNECTED"
        /\ sess[t].room = sess[s].room /\ sess[t].user = sess[s].user
        /\ InConnections(sess[s].room, sess[s].user)
        /\ DGet(connections[sess[s].room], sess[s].user) = t

\* session s takes a step
Steps(s) == sess'[s] # sess[s]

\* the awaits of the receive loop at which a send is pending
LoopSends == {"reply", "ack", "jsonreply", "errreply"}

\* C9 as stated: in the receive loop a client disconnect, a transport
\* error, or any exception other than the four recoverable errors (which
\* is what the generic handler of lines 485-493 answers) ends the loop:
\* the session does not go back to receiving.
C9_ExceptionEndsLoop ==
    [][\A s \in Sessions :
         /\ sess[s].pc = "recv" /\ client_state'[s] = "DISCONNECTED"
               => sess'[s].td = 1
         /\ sess[s].pc = "errreply" /\ Steps(s) => sess'[s].pc # "recv"
      ]_vars

\* C9, amended: in the receive loop a client disconnect ends the loop at
\* once; a send that raises ends it at once or after the error reply of
\* the generic handler, which then raises too; any other exception is
\* answered with an error reply, and the session goes on receiving when
\* that reply is sent and leaves when it is not.  A session that has left
\* the loop is in its teardown, never receives again, and reaches CLOSED
\* (its awaited send can always return, and every step shortens its sweep
\* or closes it).
C9_LoopExits ==
    /\ [](\A s \in Sessions :
            InTeardown(sess[s]) =>
                /\ sess[s].pc = "bcast" /\ sess[s].bkind = "left"
                /\ ENABLED BcastSend(s))
    /\ [][\A s \in Sessions :
            /\ sess[s].pc = "recv" /\ client_state'[s] = "DISCONNECTED"
                  => sess'[s].td = 1
            /\ sess[s].pc \in LoopSends /\ Steps(s) /\ ~alive'[s] =>
                  \/ sess'[s].td = 1
                  \/ /\ sess[s].pc \in {"reply", "ack"}
                     /\ sess'[s].pc = "errreply"
            /\ sess[s].pc = "errreply" /\ Steps(s) =>
                  IF alive'[s]
                  THEN sess'[s].pc = "recv" /\ sess'[s].td = 0
                  ELSE sess'[s].td = 1
            /\ sess[s].td = 1 =>
                  /\ sess'[s].pc \in {"bcast", "closed"}
                  /\ Steps(s) =>
                        \/ sess'[s].pc = "closed"
                        \/ Len(sess'[s].snap) < Len(sess[s].snap)
         ]_vars

\* a store call raised in a session's loop, the session answered with
\* the error reply and went on receiving; later its client disconnected
\* and it is CLOSED
C9_Witness ==
    \E s \in Sessions :
        /\ sess[s].pc = "closed" /\ sess[s].td = 1
        /\ client_state[s] = "DISCONNECTED"
        /\ \E i \in 1..Len(log[s]) :
               log[s][i].type = "error" /\ log[s][i].info = "exception"

\* session s completed its join: its client has the connected event and
\* its own copy of the joined presence
HasJoined(s) ==
    /\ \E i \in 1..Len(log[s]) :
           log[s][i].type = "connected" /\ log[s][i].src = s
    /\ \E i \in 1..Len(log[s]) :
           log[s][i].type = "presence_joined" /\ log[s][i].src = s

\* the presence events with action left of session s delivered to c
LeftEvents(s, c) ==
    {i \in 1..Len(log[c]) :
        log[c][i].type = "presence_left" /\ log[c][i].src = s}

\* C10: when a joined session has closed, every connection that was
\* still registered in its room after its unregistration, and stayed
\* connected until its turn in the sweep, has been sent one presence
\* event with action left that names the departing user, with an
\* online-users list that does not contain the departing user.
C10_LeftToEveryRemaining ==
    \A s \in Sessions :
        sess[s].pc = "closed" /\ sess[s].td = 1 /\ HasJoined(s) =>
            \A c \in DValues(sess[s].remain) \ sess[s].skipped :
                /\ c \in sess[s].attempted
                /\ Cardinality(LeftEvents(s, c)) <= 1
                /\ c \notin sess[s].failed =>
                       /\ Cardinality(LeftEvents(s, c)) = 1
                       /\ \A i \in LeftEvents(s, c) :
                              /\ log[c][i].user = sess[s].user
                              /\ sess[s].user \notin log[c][i].online

\* C11: a session that has ended holds no database handle: whichever way
\* it left (a close for a failed validation, a client disconnect, an
\* exception in the loop, a failure inside the teardown), the handle that
\* next(get_db()) opened at line 334 has been closed.
C11_HandleReleased ==
    \A s \in Sessions : sess[s].pc = "closed" => ~sess[s].db

\* the checks of lines 333-357, each on its own
Malformed(room_id) == ~IsUUID(room_id)

RoomMissing(room_id) == ~get_chat_room_by_id(room_id)

BadToken(token) == get_current_chat_user_from_token(token) = NoUser

NotMember(room_id, token) ==
    get_chat_room_member(room_id, get_current_chat_user_from_token(token))
        = "none"

\* session S was opened with a request that fails one of the validations
FailsValidation(S) ==
    \/ Malformed(S.room_id)
    \/ RoomMissing(S.room_id)
    \/ BadToken(S.token)
    \/ NotMember(S.room_id, S.token)

\* the events of session s's code that websocket c was sent
SentBy(s, c) == {i \in 1..Len(log[c]) : log[c][i].src = s}

C13_TokenCheckedFirst ==
    \A s \in Sessions :
        sess[s].pc # "init" /\ BadToken(sess[s].token) =>
            sess[s].pc = "closed" /\ sess[s].code = CloseCode("token")

Reasons == {"format", "room", "token", "member"}

\* the first of the checks, in the order in which websocket_chat makes
\* them, that the request of S fails; "none" when it passes them all
FirstFailure(S) ==
    IF Malformed(S.room_id) THEN "format"
    ELSE IF RoomMissing(S.room_id) THEN "room"
    ELSE IF BadToken(S.token) THEN "token"
    ELSE IF NotMember(S.room_id, S.token) THEN "member"
    ELSE "none"

\* C14: the four session-ending validation failures of the per-room
\* session (malformed room id, room not found, invalid or expired
\* credential, not a member) have pairwise distinct close codes, and a
\* failing session is closed with the code of the first check it fails,
\* the checks being made in that order; so two sessions refused for
\* different reasons are closed with different codes, and a session that
\* passes every check is closed with none of them.
C14_DistinctCloseCodes ==
    /\ \A q, r \in Reasons : q # r => CloseCode(q) # CloseCode(r)
    /\ \A s \in Sessions :
          sess[s].pc # "init" =>
              IF FirstFailure(sess[s]) = "none"
              THEN sess[s].code = 0
              ELSE /\ sess[s].pc = "closed"
                   /\ sess[s].code = CloseCode(FirstFailure(sess[s]))
    /\ \A s, t \in Sessions :
          /\ sess[s].pc # "init" /\ sess[t].pc # "init"
          /\ FirstFailure(sess[s]) # FirstFailure(sess[t])
          => sess[s].code # sess[t].code

\* a session that fails two checks (malformed id and invalid token) was
\* closed with the code of the first, and a session that fails only the
\* credential check with the code of that one
C14_Witness ==
    \E s, t \in Sessions :
        /\ sess[s].pc = "closed" /\ sess[t].pc = "closed"
        /\ Malformed(sess[s].room_id) /\ BadToken(sess[s].token)
        /\ sess[s].code = CloseCode("format")
        /\ ~Malformed(sess[t].room_id) /\ ~RoomMissing(sess[t].room_id)
        /\ BadToken(sess[t].token)
        /\ sess[t].code = CloseCode("token")

\* the presence events with action joined of session s delivered to c
JoinedEvents(lg, s, c) ==
    {i \in 1..Len(lg[c]) :
        lg[c][i].type = "presence_joined" /\ lg[c][i].src = s}

\* session s's step is the return of the send of its connected event,
\* after which it calls broadcast with the joined presence
StartsJoined(s) ==
    sess[s].pc = "connected" /\ sess'[s].td = 0 /\ Steps(s)

\* C15: on a successful join the steps happen in this order: connect in
\* the registry; then the connected event to the joiner, its online-users
\* list already containing the joiner; then one presence broadcast with
\* action joined and no user excluded, in which every connection that is
\* registered in the room at that time, the joiner included, is sent the
\* presence event exactly once.
C15_JoinSequence ==
    [][\A s \in Sessions :
         /\ Connects(s) =>
               /\ DGet(connections'[sess'[s].room], sess'[s].user) = s
               /\ sess'[s].payload.type = "connected"
               /\ sess'[s].user \in sess'[s].payload.online
               /\ log' = log
         /\ StartsJoined(s) =>
               /\ log'[s] = <<sess[s].payload>>
               /\ sess'[s].bkind = "joined" /\ sess'[s].exclude = NoUser
               /\ sess'[s].full = RoomDict(connections, sess[s].room)
               /\ s \in DValues(sess'[s].full)
         /\ SweepEnds(s) /\ sess[s].bkind = "joined" =>
               /\ sess'[s].attempted = DValues(sess'[s].full)
               /\ \A c \in sess'[s].attempted :
                      Cardinality(JoinedEvents(log', s, c)) =
                          (IF c \in sess'[s].failed THEN 0 ELSE 1)
      ]_vars

\* the events of type that session s's code had delivered anywhere
EventsBy(s, type) ==
    UNION {{<<c, i>> : i \in {k \in 1..Len(log[c]) :
                                  /\ log[c][k].type = type
                                  /\ log[c][k].src = s}} : c \in Sessions}

\* session s is handling a message event as a viewer
ViewerMessage(S) ==
    S.ep = "chat" /\ ~S.can_send /\ S.data.type = "message"

\* C16: a message event from a per-room session whose role is viewer
\* (can_send false) is answered with the error reply on that connection
\* and has no other effect: handling it changes neither the store nor
\* the registry nor any connection's events and leads to the send of the
\* error; when that send returns, the sender's client has the error,
\* nothing else has changed and the session is receiving again.  A viewer
\* session never has a row in the store, an ack or a message broadcast.
C16_ViewerCannotSend ==
    /\ [](\A s \in Sessions :
            sess[s].ep = "chat" /\ sess[s].registered
                /\ ~sess[s].can_send =>
                    /\ \A i \in 1..Len(store) : store[i].by # s
                    /\ EventsBy(s, "ack") = {}
                    /\ EventsBy(s, "message") = {}
                    /\ sess[s].bkind # "message"
                    /\ sess[s].pc # "ack")
    /\ [][\A s \in Sessions :
            /\ sess[s].pc = "recv" /\ ViewerMessage(sess'[s]) =>
                  /\ sess'[s].pc = "reply"
                  /\ sess'[s].payload.type = "error"
                  /\ sess'[s].payload.info = "viewer"
                  /\ store' = store /\ Registry' = Registry /\ log' = log
            /\ sess[s].pc = "reply" /\ ViewerMessage(sess[s])
                  /\ Steps(s) /\ alive'[s] =>
                  /\ log' = [log EXCEPT ![s] = Append(@, sess[s].payload)]
                  /\ store' = store /\ Registry' = Registry
                  /\ sess'[s].pc = "recv"
         ]_vars

\* a viewer sent a message event, has the error reply as its
\* latest event, is receiving again, and the store is empty
C16_Witness ==
    \E s \in Sessions :
        /\ sess[s].pc = "recv" /\ ~sess[s].can_send /\ sess[s].registered
        /\ InConnections(sess[s].room, sess[s].user)
        /\ log[s] # <<>>
        /\ log[s][Len(log[s])].type = "error"
        /\ log[s][Len(log[s])].info = "viewer"
        /\ store = <<>>

\* C17: a message event whose content is empty or consists only of
\* whitespace never reaches the message store: no row of the store has
\* such a content, whichever endpoint received the event.
C17_BlankNeverStored ==
    \A i \in 1..Len(store) : Strip(store[i].content) # <<>>

\* the await of an endpoint's receive loop, and the await of the send
\* that answers a ping
ReceivePc(S) == IF S.ep = "main" THEN "m_recv" ELSE "recv"

PongPc(S) == IF S.ep = "main" THEN "m_pong" ELSE "reply"

\* C18: a ping received in the receive loop of either endpoint produces
\* exactly one pong on the same connection and nothing else: handling it
\* changes neither registry, store nor any connection's events and leads
\* to the send of the pong; when that send returns, the pong is the one
\* event added, to the sender's connection only, registry and store are
\* unchanged, no other session has moved and the session is receiving
\* again.
C18_PingPong ==
    [][\A s \in Sessions :
         /\ sess[s].pc = ReceivePc(sess[s]) /\ sess[s].pc # "init"
               /\ sess'[s].data.type = "ping" =>
               /\ sess'[s].pc = PongPc(sess[s])
               /\ sess'[s].payload.type = "pong"
               /\ sess'[s].payload.src = s
               /\ store' = store /\ Registry' = Registry /\ log' = log
               /\ \A t \in Sessions \ {s} : sess'[t] = sess[t]
         /\ sess[s].data.type = "ping" /\ Steps(s) /\ alive'[s] =>
               /\ sess[s].pc = PongPc(sess[s])
               /\ log' = [log EXCEPT ![s] = Append(@, sess[s].payload)]
               /\ store' = store /\ Registry' = Registry
               /\ sess'[s].pc = ReceivePc(sess[s])
               /\ sess'[s].data = NoData
               /\ \A t \in Sessions \ {s} : sess'[t] = sess[t]
      ]_vars

\* a multi-room session and a registered per-room session have each
\* been answered a ping with a pong and are receiving again
C18_Witness ==
    \E s, t \in Sessions :
        /\ sess[s].ep = "main" /\ sess[s].pc = "m_recv"
        /\ log[s] # <<>> /\ log[s][Len(log[s])].type = "pong"
        /\ sess[t].ep = "chat" /\ sess[t].pc = "recv"
        /\ InConnections(sess[t].room, sess[t].user)
        /\ log[t] # <<>> /\ log[t][Len(log[t])].type = "pong"

\* session S is handling an event of an unrecognised type or a frame
\* that could not be parsed, and the await at which it answers each
Unhandled(S) == S.ep = "chat" /\ S.data.type \in {"other", "unparsable"}

ErrorPc(S) == IF S.data.type = "other" THEN "reply" ELSE "jsonreply"

ErrorInfo(S) == IF S.data.type = "other" THEN "unknown" ELSE "json"

\* C19: in a per-room session an event of an unrecognised type and an
\* inbound frame that cannot be parsed each produce one error event, sent
\* to the originating connection only: handling it changes neither
\* registry, store nor any connection's events, starts no broadcast and
\* leads to the send of the error; when that send returns, the error is
\* the one event added, to the sender's connection only, registry and
\* store are unchanged, and the session is receiving again, so that it
\* handles the next event.
C19_ErrorReplyOnly ==
    /\ [](\A s \in Sessions :
            sess[s].pc = "recv" /\ alive[s] /\ budget.events > 0
                => ENABLED Recv(s))
    /\ [][\A s \in Sessions :
            /\ sess[s].pc = "recv" /\ Unhandled(sess'[s]) =>
                  /\ sess'[s].pc = ErrorPc(sess'[s])
                  /\ sess'[s].payload.type = "error"
                  /\ sess'[s].payload.info = ErrorInfo(sess'[s])
                  /\ sess'[s].payload.src = s
                  /\ sess'[s].bkind = sess[s].bkind
                  /\ store' = store /\ Registry' = Registry /\ log' = log
                  /\ \A t \in Sessions \ {s} : sess'[t] = sess[t]
            /\ Unhandled(sess[s]) /\ Steps(s) /\ alive'[s] =>
                  /\ sess[s].pc = ErrorPc(sess[s])
                  /\ log' = [log EXCEPT ![s] = Append(@, sess[s].payload)]
                  /\ store' = store /\ Registry' = Registry
                  /\ sess'[s].pc = "recv" /\ sess'[s].td = 0
                  /\ \A t \in Sessions \ {s} : sess'[t] = sess[t]
         ]_vars

\* a registered session was answered the error for an unparsable frame,
\* went on, was answered the error for an unknown type, and is receiving
C19_Witness ==
    \E s \in Sessions : \E i, j \in 1..Len(log[s]) :
        /\ i < j
        /\ log[s][i].type = "error" /\ log[s][i].info = "json"
        /\ log[s][j].type = "error" /\ log[s][j].info = "unknown"
        /\ sess[s].pc = "recv"
        /\ InConnections(sess[s].room, sess[s].user)

\* the positions at which a coroutine is suspended in an awaited send or
\* receive
IoPcs ==
    {"connected", "bcast", "recv", "reply", "ack", "jsonreply", "errreply",
     "m_recv", "m_pong"}

\* C20: the registry lock is held only inside the blocks of connect and
\* disconnect that read and change the maps: in no reachable state, that
\* is at no await of a send or a receive of any session, is the lock
\* held; the calls of the message store and of the identity lookup are
\* made between such a block and the next await, so the lock is free at
\* them too.
C20_LockNotHeldAcrossIO ==
    /\ \A s \in Sessions : sess[s].pc \in IoPcs => ~lock
    /\ ~lock

\* after connects and a disconnect under the lock, one session is
\* suspended in a send of its sweep and another in its receive
C20_Witness ==
    \E s, t, u \in Sessions :
        /\ sess[s].pc = "bcast" /\ sess[s].registered
        /\ sess[t].pc = "recv" /\ sess[t].registered
        /\ sess[u].pc = "closed" /\ sess[u].td = 1
        /\ ~lock

\* the positions at which a session awaits a send
SendPcs == {"connected", "bcast", "reply", "ack", "jsonreply", "errreply"}

\* C21: no interleaving of connect, disconnect and broadcast calls of
\* concurrent sessions deadlocks the registry.  No session ever waits for
\* the lock: the step that calls connect (the opening of a session), the
\* steps that call disconnect (a teardown after a client disconnect or a
\* failed send, the evictions at the end of a sweep) can be taken whenever
\* the session is at their await; and every call returns: a session that
\* awaits a send is eventually back in its receive loop or closed, through
\* every sweep with its evictions and through its teardown.
C21_NoLockDeadlock ==
    /\ [](\A s \in Sessions :
            /\ ~lock
            /\ sess[s].pc \in SendPcs => ENABLED SendReturns(s)
            /\ sess[s].pc = "recv" /\ (~alive[s] \/ budget.faults > 0)
                  => ENABLED RecvDisconnect(s)
            /\ sess[s].pc = "init" /\ budget.open > 0
                  /\ (\A t \in Sessions : t < s => sess[t].pc # "init")
                  => ENABLED Open(s))
    /\ \A s \in Sessions :
          (sess[s].pc \in SendPcs) ~> (sess[s].pc \in {"recv", "closed"})

\* a sweep in which a send failed has returned after its eviction, and
\* another session of the room has run its teardown and is closed
C21_Witness ==
    \E s, t \in Sessions :
        /\ s # t
        /\ sess[s].pc \in {"recv", "closed"} /\ sess[s].failed # {}
        /\ sess[t].pc = "closed" /\ sess[t].td = 1
        /\ sess[t].room = sess[s].room
        /\ ~lock

\* the places at which the events lg hold the payload of S's sweep for c
Copies(lg, S, c) == {i \in 1..Len(lg[c]) : lg[c][i] = S.payload}

\* C22 as stated: the recipients of a broadcast are fixed when it starts:
\* by the time it returns it has attempted a send, once each, to exactly
\* the connections registered in the room at that moment minus the
\* excluded user, whatever other sessions did while the sweep was running.
C22_RecipientsFixedAtStart ==
    [][\A s \in Sessions :
         SweepEnds(s) =>
             /\ sess'[s].attempted = Recipients(sess'[s])
             /\ \A c \in sess'[s].attempted :
                    Cardinality(Copies(log', sess[s], c)) <= 1
      ]_vars

\* C22, amended: the candidates of a broadcast are fixed when it starts:
\* its snapshot is the room's dict of that moment and no step of another
\* session changes it; a send is attempted, at most once each, only to
\* connections of the snapshot whose client_state is CONNECTED when
\* their turn comes, and by the time broadcast
\* returns every connection of the snapshot (the excluded user apart) has
\* either had its send attempted or been passed over because its
\* client_state was no longer CONNECTED at its turn.  A connect of
\* another session while the sweep is running adds no recipient, and the
\* sweep always returns normally.
C22_SnapshotSweep ==
    /\ [](\A s \in Sessions :
            sess[s].pc = "bcast" =>
                /\ sess[s].attempted \subseteq Recipients(sess[s])
                /\ sess[s].skipped \subseteq Recipients(sess[s])
                /\ sess[s].attempted \cap sess[s].skipped = {}
                /\ \A c \in Sessions :
                       Cardinality(Copies(log, sess[s], c)) =
                           (IF c \in sess[s].attempted \ sess[s].failed
                            THEN 1 ELSE 0))
    /\ [][\A s \in Sessions :
            /\ StartsSweep(s) =>
                  sess'[s].full = RoomDict(connections', sess'[s].room)
            /\ sess[s].pc = "bcast" /\ sess'[s].pc = "bcast" =>
                  sess'[s].full = sess[s].full
            /\ sess[s].pc = "bcast" /\ ~Steps(s) => sess'[s] = sess[s]
            /\ sess'[s].pc = "bcast" /\ Steps(s) =>
                  client_state'[Head(sess'[s].snap)[2]] = "CONNECTED"
            /\ sess[s].pc = "bcast" /\ Steps(s) =>
                  /\ sess'[s].attempted =
                         sess[s].attempted \cup {Head(sess[s].snap)[2]}
                  /\ Head(sess[s].snap)[2] \notin sess[s].attempted
            /\ SweepEnds(s) =>
                  /\ sess'[s].attempted \cup sess'[s].skipped
                         = Recipients(sess'[s])
                  /\ \A c \in sess'[s].skipped :
                         client_state'[c] # "CONNECTED"
                  /\ \A c \in Sessions :
                         Cardinality(Copies(log', sess[s], c)) =
                             (IF c \in sess'[s].attempted \ sess'[s].failed
                              THEN 1 ELSE 0)
                  /\ sess'[s].pc =
                         (IF sess[s].bkind = "left" THEN "closed" ELSE "recv")
         ]_vars

\* while a sweep is awaiting a send, a connection of its snapshot has
\* been unregistered by its own session and another session has
\* registered a connection that the snapshot does not hold
C22_Witness ==
    \E s, t, u \in Sessions :
        /\ sess[s].pc = "bcast"
        /\ t \in DValues(sess[s].full) /\ t # s
        /\ sess[t].td = 1 /\ Unregistered(connections, t)
        /\ u \notin DValues(sess[s].full)
        /\ sess[u].room = sess[s].room
        /\ u \in DValues(RoomDict(connections, sess[s].room))

\* the rooms in whose dict of conns the user has an entry
RoomsOf(conns, user_id) ==
    {R \in DOMAIN conns : user_id \in DKeys(conns[R])}

\* the registry reg without every entry of the user, empty containers
\* removed
WithoutUser(reg, user_id) ==
    LET keep == {R \in DOMAIN reg.c : DKeys(reg.c[R]) # {user_id}}
    IN  [c |-> [R \in keep |-> DDel(reg.c[R], user_id)],
         ru |-> [R \in keep |-> reg.ru[R] \ {user_id}],
         ur |-> [U \in DOMAIN reg.ur \ {user_id} |-> reg.ur[U]],
         lock |-> reg.lock, waits |-> reg.waits]

\* session s's step is the end of a multi-room session that was accepted
MainEnds(s) ==
    sess[s].ep = "main" /\ sess[s].pc # "closed" /\ sess'[s].pc = "closed"

\* C23: when a multi-room session ends, its cleanup unregisters the user
\* from exactly the rooms the user was registered in: the rooms it leaves
\* are those in which the user had an entry, afterwards the user is in no
\* room in any of the three views, and every entry of every other user
\* is as it was.
C23_LeavesExactlyItsRooms ==
    [][\A s \in Sessions :
         MainEnds(s) =>
             LET U == sess[s].user
             IN  /\ sess'[s].td = 1
                 /\ sess'[s].left = RoomsOf(connections, U)
                 /\ RoomsOf(connections', U) = {}
                 /\ \A R \in DOMAIN room_users' : U \notin room_users'[R]
                 /\ U \notin DOMAIN user_rooms'
                 /\ Registry' = WithoutUser(Registry, U)
      ]_vars

\* a multi-room session that had joined two rooms has ended and left
\* both, while another user's connection is still registered
C23_Witness ==
    \E s, t \in Sessions :
        /\ sess[s].ep = "main" /\ sess[s].pc = "closed"
        /\ Cardinality(sess[s].left) = 2
        /\ RoomsOf(connections, sess[s].user) = {}
        /\ sess[t].user # sess[s].user
        /\ RoomsOf(connections, sess[t].user) # {}

\* room and user ids that no session ever registers
UnknownRoom == "r0"

UnknownUser == "u0"

\* the pair has an entry in none of the three views
InNoView(room_id, user_id) ==
    /\ ~InConnections(room_id, user_id)
    /\ ~InRoomUsers(room_id, user_id)
    /\ ~InUserRooms(room_id, user_id)

\* C24: disconnect(R, U) for a pair that is not registered (the room is
\* unknown, the user is unknown, or the user is only in other rooms) is
\* defined and leaves the three views exactly as they were.
C24_DisconnectUnregisteredNoOp ==
    \A R \in Rooms \cup {UnknownRoom}, U \in Users \cup {UnknownUser} :
        InNoView(R, U) => disconnect(Registry, R, U) = Registry

\* the cleanup of a per-room session has called disconnect for its pair
\* after a sweep had evicted it, while its user is registered in another
\* room only
C24_Witness ==
    \E s \in Sessions :
        /\ sess[s].pc = "closed" /\ sess[s].td = 1 /\ ~sess[s].hit
        /\ InNoView(sess[s].room, sess[s].user)
        /\ sess[s].user \in DOMAIN user_rooms

\* session s's step calls connect and then fails in get_chat_messages or
\* in a lookup of the online users, so that it runs the cleanup at once
JoinFails(s) ==
    sess[s].pc = "init" /\ sess'[s].registered /\ sess'[s].td = 1

\* session s's step is a message event whose store or lookup call raises
StoreFails(s) ==
    sess[s].pc \in {"recv", "ack"} /\ sess'[s].pc = "errreply"
        /\ budget'.faults < budget.faults /\ alive' = alive

\* C25: a failure of the message store or of the identity lookup leaves
\* no partial registration: when it happens in the join steps after
\* connect, the session's pair is in none of the three views once the
\* step's cleanup has run, which is before the session ends; when it
\* happens while a message event is handled, the registry is unchanged.
C25_NoPartialRegistration ==
    [][\A s \in Sessions :
         /\ JoinFails(s) => PairAbsent(Registry', sess'[s])
         /\ StoreFails(s) =>
                /\ Registry' = Registry
                /\ store' = store
      ]_vars

\* one session's join has failed after connect and its pair is
\* registered nowhere, and another session, still registered, is about
\* to answer a message event whose store call failed
C25_Witness ==
    \E s, t \in Sessions :
        /\ sess[s].registered /\ sess[s].td = 1 /\ alive[s]
        /\ log[s] = <<>>
        /\ PairAbsent(Registry, sess[s])
        /\ sess[t].pc = "errreply" /\ alive[t]
        /\ InConnections(sess[t].room, sess[t].user)

\* ------------------------------------------------------ identity records
\* the runs in which identity records disappear while sessions are open
MaxRemovals == 1

\* a ChatUser row stops resolving (session.get returns None, lines 376
\* and 502)
RemoveUser(u) ==
    /\ budget.removals > 0
    /\ u \in users
    /\ users' = users \ {u}
    /\ budget' = [budget EXCEPT !.removals = @ - 1]
    /\ UNCHANGED <<connections, room_users, user_rooms, lock, sess, log,
                   store, alive, client_state, page>>

UsersBudgets ==
    {[open |-> NumSessions - 1, events |-> 0, faults |-> MaxFaults - 1,
      reqs |-> CrowdRequests, removals |-> MaxRemovals]}

UsersInit == InitWith(UsersBudgets)

\* sessions join, break and leave; no inbound event arrives
UsersNext ==
    \/ \E s \in Sessions :
          Open(s) \/ SendConnected(s) \/ BcastSend(s) \/ RecvDisconnect(s)
    \/ \E u \in Users : RemoveUser(u)

UsersSpec == UsersInit /\ [][UsersNext]_vars

\* the ids registered in the room whose identity record resolves
Resolved(reg, room_id, table) == get_online_users(reg, room_id) \cap table

\* session s's step builds the list of a connected event: it calls
\* connect and no store or lookup call raises
BuildsConnected(s) ==
    sess[s].pc = "init" /\ sess'[s].registered
        /\ budget'.faults = budget.faults

\* session s's step builds the list of a left event and starts its sweep
BuildsLeft(s) ==
    sess[s].ep = "chat" /\ sess'[s].td = sess[s].td + 1
        /\ sess'[s].pc = "bcast"

\* C26: the online-users list built for a connected or presence event
\* has one record for each user registered in the room whose identity
\* record resolves and none for a registered user whose record does not
\* resolve, and an unresolved user does not make the event fail: the
\* connected event is built whenever no call raises, the joined event
\* carries the list of the connected event, and the left event is built
\* whenever no call raises.
C26_OnlineUsersResolved ==
    [][\A s \in Sessions :
         /\ BuildsConnected(s) =>
                /\ sess'[s].pc = "connected"
                /\ sess'[s].payload.type = "connected"
                /\ sess'[s].payload.online =
                       Resolved(Registry', sess'[s].room, users)
                /\ sess'[s].online = sess'[s].payload.online
         /\ sess[s].pc = "connected" /\ sess'[s].bkind = "joined"
                /\ sess'[s].pc = "bcast" =>
                sess'[s].payload.online = sess[s].online
         /\ BuildsLeft(s) =>
                /\ sess'[s].payload.type = "presence_left"
                /\ sess'[s].payload.online =
                       Resolved(Registry', sess'[s].room, users)
         /\ sess[s].ep = "chat" /\ sess'[s].td = sess[s].td + 1
                /\ budget'.faults = budget.faults - Breaks(s, alive'[s])
                /\ get_online_users(Registry', sess'[s].room) # {} =>
                sess'[s].pc = "bcast"
      ]_vars

\* a session is about to send a connected event whose list omits a user
\* that is registered in its room and whose identity record is gone
C26_Witness ==
    \E s \in Sessions :
        /\ sess[s].pc = "connected"
        /\ \E u \in get_online_users(Registry, sess[s].room) :
               u \notin users /\ u \notin sess[s].payload.online
        /\ sess[s].user \in sess[s].payload.online

\* ------------------------------------------------------- message history
\* crud.get_chat_messages over a ChatMessage table: a sequence of rows in
\* commit order, each with its room and its created_at; a message is
\* named by its index in the table
MaxRows == 3
MaxTime == 2
MaxLimit == 2

Times == 1..MaxTime

\* before = None
NoCutoff == 0

Tables ==
    UNION {[1..n -> [room : Rooms, created_at : Times]] : n \in 0..MaxRows}

\* the query of lines 296-299: the room's rows, created before the
\* cut-off when there is one
Matching(table, room_id, before) ==
    {i \in 1..Len(table) :
        /\ table[i].room = room_id
        /\ before # NoCutoff => table[i].created_at < before}

\* order_by(created_at.desc()): every order of the rows the database may
\* return, rows of equal created_at in any order
DescOrders(table, ids) ==
    {q \in [1..Cardinality(ids) -> ids] :
        /\ \A a, b \in DOMAIN q : a # b => q[a] # q[b]
        /\ \A a, b \in DOMAIN q :
               a < b => table[q[a]].created_at >= table[q[b]].created_at}

\* list.reverse()
Reverse(q) == [i \in 1..Len(q) |-> q[Len(q) + 1 - i]]

\* q[:n]
Prefix(q, n) == SubSeq(q, 1, IF n < Len(q) THEN n ELSE Len(q))

\* a history that is returned newest first
get_chat_messages_newest_first(table, room_id, before, limit) ==
    LET ids == Matching(table, room_id, before)
    IN  {LET messages == Prefix(q, limit + 1)
             has_more == Len(messages) > limit
         IN  [room |-> room_id, before |-> before, limit |-> limit,
              messages |-> IF has_more THEN Prefix(messages, limit)
                           ELSE messages,
              total |-> Cardinality(ids), has_more |-> has_more]
         : q \in DescOrders(table, ids)}

\* crud.get_chat_messages: the results the call may return
get_chat_messages(table, room_id, before, limit) ==
    LET ids == Matching(table, room_id, before)
    IN  {LET messages == Prefix(q, limit + 1)
             has_more == Len(messages) > limit
         IN  [room |-> room_id, before |-> before, limit |-> limit,
              messages |-> Reverse(IF has_more THEN Prefix(messages, limit)
                                   ELSE messages),
              total |-> Cardinality(ids), has_more |-> has_more]
         : q \in DescOrders(table, ids)}

\* a caller reads a page of a room's history
GetChatMessages ==
    /\ \E room_id \in Rooms, before \in {NoCutoff} \cup 1..(MaxTime + 1),
          limit \in 0..MaxLimit :
         page' \in get_chat_messages(store, room_id, before, limit)
    /\ UNCHANGED <<connections, room_users, user_rooms, lock, sess, log,
                   store, alive, client_state, users, budget>>

HistoryInit ==
    /\ connections = EmptyRegistry.c
    /\ room_users = EmptyRegistry.ru
    /\ user_rooms = EmptyRegistry.ur
    /\ lock = EmptyRegistry.lock
    /\ sess = [s \in Sessions |-> InitSession]
    /\ log = [s \in Sessions |-> <<>>]
    /\ store \in Tables
    /\ alive = [s \in Sessions |-> TRUE]
    /\ client_state = [s \in Sessions |-> "CONNECTING"]
    /\ users = Users
    /\ page = NoPage
    /\ budget = [open |-> 0, events |-> 0, faults |-> 0, reqs |-> {}]

HistoryNext == GetChatMessages

HistorySpec == HistoryInit /\ [][HistoryNext]_vars

\* the messages of the page, as a set
Returned == {page.messages[i] : i \in DOMAIN page.messages}

\* C27: get_chat_messages(room, limit) returns at most limit messages,
\* namely limit most recently created messages of the room that were
\* created before the cut-off when there is one (all of them when there
\* are fewer), each once, oldest first; has_more holds exactly when more
\* than limit such messages exist, and total is their number.
C27_HistoryPage ==
    page # NoPage =>
        LET ids == Matching(store, page.room, page.before)
            n == Cardinality(ids)
        IN  /\ Len(page.messages) <= page.limit
            /\ Len(page.messages) = IF n < page.limit THEN n ELSE page.limit
            /\ Cardinality(Returned) = Len(page.messages)
            /\ Returned \subseteq ids
            /\ \A i \in Returned, j \in ids \ Returned :
                   store[i].created_at >= store[j].created_at
            /\ \A a, b \in DOMAIN page.messages :
                   a < b => store[page.messages[a]].created_at
                                <= store[page.messages[b]].created_at
            /\ page.has_more <=> n > page.limit
            /\ page.total = n

\* a page of two messages, the older one first, was cut from the three
\* messages of the room that were created before the cut-off
C27_Witness ==
    /\ page # NoPage
    /\ page.has_more /\ Len(page.messages) = 2 /\ page.total = 3
    /\ page.before # NoCutoff
    /\ store[page.messages[1]].created_at
           < store[page.messages[2]].created_at

\* session s's own connection is the entry of its (room, user) pair
OwnRegistered(conns, s, S) ==
    /\ S.room \in DOMAIN conns
    /\ S.user \in DKeys(conns[S.room])
    /\ DGet(conns[S.room], S.user) = s

\* C28 as stated: every per-room session that waits in its receive loop
\* and has not been evicted for a failed send (its transport is up) has
\* its own connection registered for its pair, and the cleanup of one
\* session leaves the own connection of every other session registered.
C28_OwnConnectionRegistered ==
    [][\A s \in Sessions :
         /\ sess'[s].ep = "chat" /\ sess'[s].pc = "recv" /\ alive'[s] =>
                OwnRegistered(connections', s, sess'[s])
         /\ sess'[s].td = sess[s].td + 1 =>
                \A t \in Sessions \ {s} :
                    OwnRegistered(connections, t, sess[t]) =>
                        OwnRegistered(connections', t, sess'[t])
      ]_vars

\* C29 as stated: all recipients of a room see the same order of
\* messages: two connections that both receive the broadcast copies of
\* two messages receive them in the same relative order.
C29_SameOrderEverywhere ==
    \A c, d \in Sessions :
        \A i, j \in 1..Len(log[c]), k, l \in 1..Len(log[d]) :
            /\ i < j
            /\ log[c][i].type = "message" /\ log[c][j].type = "message"
            /\ log[d][k].type = "message" /\ log[d][l].type = "message"
            /\ log[d][k].msg = log[c][i].msg
            /\ log[d][l].msg = log[c][j].msg
            => k < l

\* C30 as stated: every message that a per-room session has appended to
\* the store is afterwards broadcast to the room by that session: the
\* step that follows the commit, the return of the ack's send whether it
\* succeeds or raises, starts the room broadcast of the message.
C30_StoredThenBroadcast ==
    [][\A s \in Sessions :
         sess[s].pc = "ack" /\ sess'[s] # sess[s] =>
             /\ sess'[s].bkind = "message"
             /\ sess'[s].pc \in {"bcast", "recv"}
             /\ sess'[s].td = sess[s].td
      ]_vars

\* the user has a ChatRoomMember row for the room
IsMember(room_id, user_id) == get_chat_room_member(room_id, user_id) # "none"

\* C31 as stated: on every endpoint a (room, user) entry is in the
\* registry only for a user who is a member of the room, and the
\* broadcast copy of a room's message is delivered only to connections of
\* members of that room.
C31_OnlyMembersRegistered ==
    /\ \A R \in DOMAIN connections :
           \A U \in DKeys(connections[R]) : IsMember(R, U)
    /\ \A c \in Sessions :
           \A i \in 1..Len(log[c]) :
               log[c][i].type = "message" =>
                   IsMember(store[log[c][i].msg].room, sess[c].user)

\* the role lets the member send (websocket_chat line 360)
MaySend(room_id, user_id) ==
    get_chat_room_member(room_id, user_id) \notin {"none", "VIEWER"}

\* C32 as stated: on every endpoint a row of the store for room R with
\* sender U exists only if U is a member of R whose role may send, and
\* only messages of such senders are delivered as broadcast copies.
C32_OnlySendersPersist ==
    /\ \A i \in 1..Len(store) : MaySend(store[i].room, store[i].sender)
    /\ \A c \in Sessions :
           \A i \in 1..Len(log[c]) :
               log[c][i].type = "message" =>
                   MaySend(store[log[c][i].msg].room, log[c][i].user)

\* C33 as stated: presence events are paired: a left event for user U in
\* room R is delivered only from a session of U in R that has called its
\* joined broadcast before, also when the session fails between connect
\* and the joined broadcast.
C33_LeftOnlyAfterJoined ==
    \A c \in Sessions :
        \A i \in 1..Len(log[c]) :
            log[c][i].type = "presence_left" =>
                /\ sess[log[c][i].src].joined
                /\ sess[log[c][i].src].user = log[c][i].user

\* C34: the registry keeps no empty container: connections and
\* room_users have the same rooms as keys, every dict of connections and
\* every set of room_users and of user_rooms is non-empty; the last
\* disconnect from a room has removed the room key and a user's last
\* disconnect has removed the user key.
C34_NoEmptyContainer ==
    /\ DOMAIN connections = DOMAIN room_users
    /\ \A R \in DOMAIN connections :
           connections[R] # <<>> /\ room_users[R] # {}
    /\ \A U \in DOMAIN user_rooms : user_rooms[U] # {}

\* a multi-room session has ended and left its rooms as their last user:
\* their keys and its user's key are gone, while another room is still
\* registered
C34_Witness ==
    \E s \in Sessions :
        /\ sess[s].ep = "main" /\ sess[s].pc = "closed"
        /\ sess[s].left # {}
        /\ \A R \in sess[s].left :
               R \notin DOMAIN connections /\ R \notin DOMAIN room_users
        /\ sess[s].user \notin DOMAIN user_rooms
        /\ DOMAIN connections # {}

====
